---- MODULE Spec2Model ----
(***************************************************************************)
(* Snowflake API: the seeded ASCII snowflake generator                     *)
(* (src/src/db/queries.ts, class SnowflakeGenerator), the snowflakes table *)
(* (src/src/db/schema.ts) with its queries, and the HTTP routes of         *)
(* src/src/index.ts.                                                       *)
(*                                                                         *)
(* Representation.  A JavaScript string is a sequence of UTF-16 code       *)
(* units: a seed is a sequence of char codes (what charCodeAt reads), a    *)
(* pattern is a sequence of one-unit characters.  Every palette glyph is   *)
(* one code unit; the four non-ASCII ones are written "U+25A0", "U+25B2",  *)
(* "U+00B0" and "U+00B7".  The model checker's integers are 32 bits wide,  *)
(* so every product below is arranged to stay inside 32 bits while giving  *)
(* the value the code computes in exact (< 2^53) double arithmetic.        *)
(***************************************************************************)
EXTENDS Integers, Sequences, FiniteSets, TLC

VARIABLES
    rngSeed,    \* SpecRng: the seed the closure under test was built from
    value,      \* the `value` cell of the most recently built seededRandom closure
    rngOut,     \* SpecRng: numerator of the last value returned (value - 1), or NoOut
    rngCalls,   \* SpecRng: number of invocations of the closure so far
    genCall,    \* SpecGen: arguments of the last generate call, or NoCall
    genGrid,    \* SpecGen: the grid of that call just before it is joined
    genOut,     \* SpecGen: the string that call returned
    genLog,     \* SpecDet: the generate calls made so far on the shared instance
    rows,       \* Spec: the snowflakes table, id -> row
    seq,        \* Spec: sqlite_sequence entry of the table (largest id ever issued)
    issued,     \* Spec: ids in the order createSnowflake returned them
    request,    \* Spec: the last HTTP request
    response    \* Spec: the response to it

vars == <<rngSeed, value, rngOut, rngCalls, genCall, genGrid, genOut, genLog,
          rows, seq, issued, request, response>>

rngVars == <<rngSeed, value, rngOut, rngCalls>>
genVars == <<genCall, genGrid, genOut>>
dbVars  == <<rows, seq, issued, request, response>>

-----------------------------------------------------------------------------
(* Bounds of the model *)

MaxSeedLen == 2     \* enumerated seeds have at most this many code units
MaxRngCalls == 8    \* invocations of one closure followed in SpecRng
MaxLog == 3         \* generate calls remembered in SpecDet
MaxId == 3          \* rows ever inserted in Spec

-----------------------------------------------------------------------------
(* Palettes: SnowflakeGenerator.chars *)

Styles == {"classic", "dense", "minimal", "mixed"}

chars ==
    [classic |-> <<"*", "+", "-", "|", "o", ".", "x">>,
     dense   |-> <<"#", "@", "%", "&", "$", "U+25A0", "U+25B2">>,
     minimal |-> <<".", "o", "*", "U+00B0", "U+00B7">>,
     mixed   |-> <<"*", "+", "-", "|", "o", ".", "x", "#", "@", "%", "&", "$">>]

Range(s) == {s[i] : i \in DOMAIN s}

Space == " "
Newline == "\n"
\* what an out-of-range array read yields; Array.prototype.join renders it ""
Undefined == "undefined"

-----------------------------------------------------------------------------
(* hash: 32-bit string hash, then Math.abs *)

Pow16 == 65536
MinInt32 == -2147483647 - 1

\* One loop iteration on the 32-bit pattern <<hi, lo>> (16-bit halves) of hash:
\* hash = ((hash << 5) - hash) + char; hash = hash & hash, i.e. hash*31 + char
\* wrapped to 32 bits.
HashStep(h, char) ==
    LET t == h[2] * 31 + char
    IN  <<(h[1] * 31 + (t \div Pow16)) % Pow16, t % Pow16>>

\* for (let i = 0; i < str.length; i++): the loop from the state st on, st
\* holding the loop's two variables, i (counted from 1) and hash
RECURSIVE HashLoop(_, _)
HashLoop(str, st) ==
    IF st.i > Len(str) THEN st.hash
    ELSE HashLoop(str, [i |-> st.i + 1, hash |-> HashStep(st.hash, str[st.i])])

\* the signed reading of a 32-bit pattern (what hash & hash leaves in hash)
ToInt32(h) == IF h[1] >= 32768 THEN (h[1] - Pow16) * Pow16 + h[2] ELSE h[1] * Pow16 + h[2]

\* Math.abs(hash).  Math.abs(-2^31) is 2^31, one more than a 32-bit integer holds:
\* it is kept as its 32-bit pattern MinInt32, and LcgStep reads it as 2^31.
hash(str) ==
    LET h == ToInt32(HashLoop(str, [i |-> 1, hash |-> <<0, 0>>]))
    IN  IF h = MinInt32 THEN MinInt32 ELSE IF h < 0 THEN -h ELSE h

-----------------------------------------------------------------------------
(* seededRandom: the Lehmer generator closure *)

Multiplier == 16807
Modulus == 2147483647
Divisor == 2147483646

\* value = (value * 16807) % 2147483647, by Schrage's decomposition
\* (Modulus = 16807 * 127773 + 2836) so that no product leaves 32 bits.
\* 2^31 mod Modulus = 1 and Modulus mod Modulus = 0.
LcgStep(v) ==
    LET q == Modulus \div Multiplier
        r == Modulus % Multiplier
        w == IF v = MinInt32 THEN 1 ELSE v % Modulus
        t == Multiplier * (w % q) - r * (w \div q)
    IN  IF t < 0 THEN t + Modulus ELSE t

\* a variant of the closure that keeps one `value` cell on the instance and
\* seeds it only while it is still unset
seededRandomShared(seed) == IF value = 0 THEN hash(seed) ELSE value

\* let value = this.hash(seed.toString()): the initial cell of a new closure
seededRandom(seed) == hash(seed)

\* The closure returns (value - 1) / 2147483646; the model carries the numerator
\* n = value - 1.  Math.floor(rng() * len) = floor(n * len / Divisor): the double
\* result equals the exact quotient at every boundary of every palette length.
\* floor(n*len/Divisor) >= k  iff  n >= ceil(k*Divisor/len).
FloorTimes(n, len) ==
    IF n < 0 THEN -1
    ELSE LET Q == Divisor \div len
             R == Divisor % len
         IN  Cardinality({k \in 1..(len - 1) : n >= k * Q + ((k * R + len - 1) \div len)})

\* array[i] with a JavaScript index: undefined outside 0..length-1
At(arr, i) == IF i >= 0 /\ i < Len(arr) THEN arr[i + 1] ELSE Undefined

\* rng() > num/den, i.e. n/Divisor > num/den, i.e. n > floor(num*Divisor/den)
Exceeds(n, num, den) == n > num * (Divisor \div den) + (num * (Divisor % den)) \div den

-----------------------------------------------------------------------------
(* generateSegment: one 60-degree wedge *)

Abs(i) == IF i < 0 THEN -i ELSE i

\* The loop body and the y++ after it.  st is the state the iteration starts
\* in: the loop variable y, the points pushed so far and the closure's value
\* cell; the result is the state the next iteration starts in.  Each LcgStep is
\* one call of rng(), in the order the code makes them.
SegmentBody(st, maxRadius, palette) ==
    LET y == st.y
        v1 == LcgStep(st.value)                 \* rng() > 0.3
    IN  IF ~Exceeds(v1 - 1, 3, 10)
        THEN [y |-> y + 1, points |-> st.points, value |-> v1]
        ELSE
        LET v2 == LcgStep(v1)                   \* glyph of the main point
            main == [x |-> 0, y |-> y,
                     char |-> At(palette, FloorTimes(v2 - 1, Len(palette)))]
            v3 == LcgStep(v2)                   \* rng() > 0.6, drawn only if y > 2
        IN  IF ~(y > 2)
            THEN [y |-> y + 1, points |-> Append(st.points, main), value |-> v2]
            ELSE IF ~Exceeds(v3 - 1, 6, 10)
            THEN [y |-> y + 1, points |-> Append(st.points, main), value |-> v3]
            ELSE
            LET v4 == LcgStep(v3)
                sideY == y - FloorTimes(v4 - 1, 2) - 1
                v5 == LcgStep(v4)
                sideX == IF Exceeds(v5 - 1, 1, 2) THEN 1 ELSE -1
                v6 == LcgStep(v5)               \* glyph of the side point
                side == [x |-> sideX, y |-> sideY,
                         char |-> At(palette, FloorTimes(v6 - 1, Len(palette)))]
            IN  IF Abs(sideX) + Abs(sideY) <= maxRadius
                THEN [y |-> y + 1, points |-> Append(Append(st.points, main), side), value |-> v6]
                ELSE [y |-> y + 1, points |-> Append(st.points, main), value |-> v5]

\* for (let y = 1; y <= maxRadius; y++): the loop from the state st on
RECURSIVE SegmentLoop(_, _, _)
SegmentLoop(st, maxRadius, palette) ==
    IF st.y > maxRadius THEN st
    ELSE SegmentLoop(SegmentBody(st, maxRadius, palette), maxRadius, palette)

generateSegment(v, maxRadius, palette) ==
    SegmentLoop([y |-> 1, points |-> <<>>, value |-> v], maxRadius, palette)

-----------------------------------------------------------------------------
(* generate: six rotations of the wedge, the centre, the join *)

\* Math.cos and Math.sin of rotation * Math.PI / 3, rotation = 0..5, in
\* millionths.  Math.cos yields 0.5000000000000001, -0.4999999999999998,
\* -0.5000000000000004 and 0.5000000000000001 where the exact cosine is +-1/2;
\* the sign of each error decides how Math.round breaks the tie y/2 for odd y, so
\* the table keeps that sign as one millionth.  With |x| <= 1 and y <= 10 no other
\* coordinate comes within 0.06 of a tie.
CosMicro == <<1000000, 500001, -499999, -1000000, -500001, 500001>>
SinMicro == <<0, 866025, 866025, 0, -866025, -866025>>
Micro == 1000000

\* Math.round on a value given in millionths: the nearest integer, ties upwards
JsRound(m) == (m + (Micro \div 2)) \div Micro

RotX(p, rotation) == JsRound(p.x * CosMicro[rotation + 1] - p.y * SinMicro[rotation + 1])
RotY(p, rotation) == JsRound(p.x * SinMicro[rotation + 1] + p.y * CosMicro[rotation + 1])

\* grid[y][x] on a grid held as a sequence of rows
SetCell(grid, x, y, c) == [grid EXCEPT ![y + 1][x + 1] = c]
Cell(grid, x, y) == grid[y + 1][x + 1]

Max(S) == CHOOSE m \in S : \A k \in S : k <= m

\* The assignments grid[y][x] = point.char that the two nested loops attempt, in
\* the order they attempt them: rotation = 0..5 outside, the points inside.
\* `inside` is the bounds test that guards the assignment.
Writes(points, size, center) ==
    [k \in 1..(6 * Len(points)) |->
        LET rotation == (k - 1) \div Len(points)
            point == points[((k - 1) % Len(points)) + 1]
            x == RotX(point, rotation) + center
            y == RotY(point, rotation) + center
        IN  [x |-> x, y |-> y, char |-> point.char,
             inside |-> x >= 0 /\ x < size /\ y >= 0 /\ y < size]]

\* The grid after the loops: a cell holds the char of the last assignment that
\* hit it (a later write overwrites an earlier one), a space if none did.
Rotations(points, size, center) ==
    LET W == Writes(points, size, center)
    IN  [r \in 1..size |-> [c \in 1..size |->
            LET hits == {k \in DOMAIN W :
                            W[k].inside /\ W[k].x = c - 1 /\ W[k].y = r - 1}
            IN  IF hits = {} THEN Space ELSE W[Max(hits)].char]]

\* row.join(''): undefined and null elements are rendered as the empty string
Defined(c) == c # Undefined
JoinRow(row) == SelectSeq(row, Defined)

\* strs.join('\n') over the elements lo..hi of strs: the join of an array is the
\* join of its first half, a newline, and the join of its second half
RECURSIVE Join(_, _, _)
Join(strs, lo, hi) ==
    IF lo > hi THEN <<>>
    ELSE IF lo = hi THEN strs[lo]
    ELSE LET mid == (lo + hi) \div 2
         IN  Join(strs, lo, mid) \o <<Newline>> \o Join(strs, mid + 1, hi)

\* grid.map(row => row.join('')).join('\n')
JoinRows(grid) == Join([i \in 1..Len(grid) |-> JoinRow(grid[i])], 1, Len(grid))

\* generate up to the return statement: the final grid and the closure's cell
generateGrid(seed, size, style) ==
    LET palette == chars[style]
        center == size \div 2
        seg == generateSegment(seededRandom(seed), center, palette)
        drawn == Rotations(seg.points, size, center)
        vc == LcgStep(seg.value)
    IN  [grid |-> SetCell(drawn, center, center,
                          At(palette, FloorTimes(vc - 1, Len(palette)))),
         value |-> vc]

generate(seed, size, style) == JoinRows(generateGrid(seed, size, style).grid)

\* the lines of a string: its maximal newline-free pieces, in order.  The k-th
\* line lies between the k-th and the (k+1)-th of the cuts, which are the
\* positions of the newlines, 0 and Len(str) + 1.
Lines(str) ==
    LET cuts == {i \in 0..(Len(str) + 1) : i \in 1..Len(str) => str[i] = Newline}
        cut(k) == CHOOSE p \in cuts : Cardinality({q \in cuts : q < p}) = k - 1
    IN  [k \in 1..(Cardinality(cuts) - 1) |-> SubSeq(str, cut(k) + 1, cut(k + 1) - 1)]

-----------------------------------------------------------------------------
(* Inputs *)

\* "a" and "0"
SeedAlphabet == {97, 48}

\* "my-unique-seed" (index.ts, the request example)
ExampleSeed == <<109, 121, 45, 117, 110, 105, 113, 117, 101, 45, 115, 101, 101, 100>>
\* "aoffckzd": hashes to 0
ZeroSeed == <<97, 111, 102, 102, 99, 107, 122, 100>>
\* "alxexlna" and "alxexlnc": hash to 2^31 - 1 and to -(2^31 - 1)
MaxSeed == <<97, 108, 120, 101, 120, 108, 110, 97>>
NegMaxSeed == <<97, 108, 120, 101, 120, 108, 110, 99>>
\* "alxexlnb": hashes to -2^31
MinSeed == <<97, 108, 120, 101, 120, 108, 110, 98>>

Seeds ==
    UNION {[1..k -> SeedAlphabet] : k \in 0..MaxSeedLen}
        \cup {ExampleSeed, ZeroSeed, MaxSeed, NegMaxSeed, MinSeed}

\* the sizes generate is called with: 1..20 passes validation, 20 becomes 21
Sizes == 1..21

NoSeed == <<-1>>
NoOut == -2
NoCall == [seed |-> NoSeed, size |-> 0, style |-> "none"]
NoRows == [i \in {} |-> 0]
NoRequest == [op |-> "none"]
NoResponse == [status |-> 0, body |-> <<>>]

Init ==
    /\ rngSeed = NoSeed
    /\ value = 0
    /\ rngOut = NoOut
    /\ rngCalls = 0
    /\ genCall = NoCall
    /\ genGrid = <<>>
    /\ genOut = <<>>
    /\ genLog = <<>>
    /\ rows = NoRows
    /\ seq = 0
    /\ issued = <<>>
    /\ request = NoRequest
    /\ response = NoResponse

-----------------------------------------------------------------------------
(* SpecRng: one seededRandom closure, invoked repeatedly *)

\* const rng = this.seededRandom(seed)
NewRng(seed) ==
    /\ rngSeed' = seed
    /\ value' = seededRandom(seed)
    /\ rngOut' = NoOut
    /\ rngCalls' = 0
    /\ UNCHANGED <<genVars, genLog, dbVars>>

\* rng(): value = (value * 16807) % 2147483647; return (value - 1) / 2147483646
RngCall ==
    /\ rngSeed # NoSeed
    /\ rngCalls < MaxRngCalls
    /\ value' = LcgStep(value)
    /\ rngOut' = value' - 1
    /\ rngCalls' = rngCalls + 1
    /\ UNCHANGED <<rngSeed, genVars, genLog, dbVars>>

NextRng == (\E seed \in Seeds : NewRng(seed)) \/ RngCall

SpecRng == Init /\ [][NextRng]_vars

-----------------------------------------------------------------------------
(* SpecGen: generator.generate(seed, size, style) *)

\* One call, from entry to the return statement.  The caller then drops the
\* result and the closure (Forget) before the next call is followed.
Generate(seed, size, style) ==
    LET run == generateGrid(seed, size, style)
    IN  /\ genCall = NoCall
        /\ genCall' = [seed |-> seed, size |-> size, style |-> style]
        /\ genGrid' = run.grid
        /\ genOut' = JoinRows(run.grid)
        /\ value' = run.value
        /\ UNCHANGED <<rngSeed, rngOut, rngCalls, genLog, dbVars>>

Forget ==
    /\ genCall # NoCall
    /\ genCall' = NoCall
    /\ genGrid' = <<>>
    /\ genOut' = <<>>
    /\ value' = 0
    /\ UNCHANGED <<rngSeed, rngOut, rngCalls, genLog, dbVars>>

NextGen ==
    \/ \E seed \in Seeds, size \in Sizes, style \in Styles : Generate(seed, size, style)
    \/ Forget

SpecGen == Init /\ [][NextGen]_vars

-----------------------------------------------------------------------------
(* SpecDet: a sequence of generate calls on the one shared instance *)

DetSeeds == {<<>>, <<97>>, ExampleSeed}
DetSizes == {1, 5}
DetStyles == {"classic", "minimal"}

\* const generator = new SnowflakeGenerator(); generator.generate(...) again and again
Call(seed, size, style) ==
    LET run == generateGrid(seed, size, style)
    IN  /\ Len(genLog) < MaxLog
        /\ genLog' = Append(genLog, [seed |-> seed, size |-> size, style |-> style,
                                     out |-> JoinRows(run.grid)])
        /\ value' = run.value
        /\ UNCHANGED <<rngSeed, rngOut, rngCalls, genVars, dbVars>>

NextDet == \E seed \in DetSeeds, size \in DetSizes, style \in DetStyles : Call(seed, size, style)

SpecDet == Init /\ [][NextDet]_vars

-----------------------------------------------------------------------------
(* The snowflakes table and its queries (schema.ts, queries.ts) *)

\* An optional argument or body field: <<>> when omitted, <<v>> when given.
Omitted == <<>>
Given(v) == <<v>>

\* a stored row together with its primary key, as a select returns it
Row(id) ==
    [id |-> id, pattern |-> rows[id].pattern, size |-> rows[id].size,
     melted |-> rows[id].melted, createdAt |-> rows[id].createdAt]

\* a rowid chosen as for a plain INTEGER PRIMARY KEY: one more than the largest
\* rowid now in the table
NextRowidReuse == Max(DOMAIN rows \cup {0}) + 1

\* id: integer primary key AUTOINCREMENT.  The new rowid is one more than the
\* largest rowid the table has ever held, which sqlite_sequence records.
NextRowid == Max(DOMAIN rows \cup {seq}) + 1

\* db.select().from(snowflakes).orderBy(desc(snowflakes.id)).all()
listSnowflakes ==
    [k \in 1..Cardinality(DOMAIN rows) |->
        Row(CHOOSE id \in DOMAIN rows :
                Cardinality({j \in DOMAIN rows : j > id}) = k - 1)]

\* db.select().from(snowflakes).where(eq(snowflakes.id, id)).get():
\* the row, or undefined (Omitted)
getSnowflake(id) == IF id \in DOMAIN rows THEN Given(Row(id)) ELSE Omitted

\* an update without the where clause
meltSnowflakeAll(id) ==
    [rows |-> [i \in DOMAIN rows |-> [rows[i] EXCEPT !.melted = 1]],
     changes |-> Cardinality(DOMAIN rows)]

\* db.update(snowflakes).set({ melted: 1 }).where(eq(snowflakes.id, id)).run()
meltSnowflake(id) ==
    IF id \in DOMAIN rows
    THEN [rows |-> [rows EXCEPT ![id].melted = 1], changes |-> 1]
    ELSE [rows |-> rows, changes |-> 0]

\* a delete that reports the change but leaves the row in the table
deleteSnowflakeKeep(id) ==
    [rows |-> rows, changes |-> IF id \in DOMAIN rows THEN 1 ELSE 0]

\* db.delete(snowflakes).where(eq(snowflakes.id, id)).run()
deleteSnowflake(id) ==
    IF id \in DOMAIN rows
    THEN [rows |-> [i \in DOMAIN rows \ {id} |-> rows[i]], changes |-> 1]
    ELSE [rows |-> rows, changes |-> 0]

\* the parity test inverted
ActualSizeInverted(snowflakeSize) ==
    IF snowflakeSize % 2 = 0 THEN snowflakeSize ELSE snowflakeSize + 1

\* const actualSize = snowflakeSize % 2 === 0 ? snowflakeSize + 1 : snowflakeSize
ActualSize(snowflakeSize) ==
    IF snowflakeSize % 2 = 0 THEN snowflakeSize + 1 ELSE snowflakeSize

StyleList == <<"classic", "dense", "minimal", "mixed">>

\* createSnowflake(size, seed, style).  `now` is Math.floor(Date.now() / 1000);
\* rndSize is Math.floor(Math.random() * 10), rndStyle is
\* Math.floor(Math.random() * 4) and rndSeed is the string
\* `snowflake-${Date.now()}-${Math.random()}`; each is read only when the
\* argument before its || is falsy (undefined, 0, the empty string).
createSnowflake(size, seed, style, now, rndSize, rndSeed, rndStyle) ==
    LET snowflakeSize == IF size # Omitted /\ size[1] # 0 THEN size[1] ELSE rndSize + 3
        actualSize == ActualSize(snowflakeSize)
        snowflakeSeed == IF seed # Omitted /\ seed[1] # <<>> THEN seed[1] ELSE rndSeed
        snowflakeStyle == IF style # Omitted THEN style[1] ELSE StyleList[rndStyle + 1]
        run == generateGrid(snowflakeSeed, actualSize, snowflakeStyle)
        id == NextRowid
    IN  [rows |-> rows @@ (id :> [pattern |-> JoinRows(run.grid), size |-> actualSize,
                                  melted |-> 0, createdAt |-> now]),
         seq |-> Max({seq, id}),
         call |-> [seed |-> snowflakeSeed, size |-> actualSize, style |-> snowflakeStyle],
         value |-> run.value,
         result |-> [id |-> id, seed |-> snowflakeSeed, style |-> snowflakeStyle]]

-----------------------------------------------------------------------------
(* The routes (index.ts) *)

\* Number.isFinite(id), for a path parameter that z.coerce.number() accepted
IsFinite(id) == id \in Int

\* a request on a path with an id, and the one POST carries
IdRequest(op, id) == [op |-> op, id |-> id]
CreateRequest(size, seed, style) ==
    [op |-> "create", size |-> size, seed |-> seed, style |-> style]

\* the handler's return: c.json(body, status) or c.text(body, status)
Respond(req, status, body) ==
    /\ request' = req
    /\ response' = [status |-> status, body |-> body]

\* GET /api/snowflakes
ListRoute ==
    /\ Respond([op |-> "list"], 200, listSnowflakes)
    /\ UNCHANGED <<rngVars, genVars, genLog, rows, seq, issued>>

\* GET /api/snowflakes/{id}
GetRoute(id) ==
    /\ IF ~IsFinite(id) THEN Respond(IdRequest("get", id), 400, [error |-> "bad id"])
       ELSE LET snowflake == getSnowflake(id)
            IN  IF snowflake = Omitted THEN Respond(IdRequest("get", id), 404, [error |-> "not found"])
                ELSE Respond(IdRequest("get", id), 200, snowflake[1])
    /\ UNCHANGED <<rngVars, genVars, genLog, rows, seq, issued>>

\* GET /api/snowflakes/{id}/render
RenderRoute(id) ==
    /\ IF ~IsFinite(id) THEN Respond(IdRequest("render", id), 400, "Invalid snowflake ID")
       ELSE LET snowflake == getSnowflake(id)
            IN  IF snowflake = Omitted THEN Respond(IdRequest("render", id), 404, "Snowflake not found")
                ELSE Respond(IdRequest("render", id), 200, snowflake[1].pattern)
    /\ UNCHANGED <<rngVars, genVars, genLog, rows, seq, issued>>

\* POST /api/snowflakes with body {size, seed, style}, every field optional
CreateRoute(size, seed, style, now, rndSize, rndSeed, rndStyle) ==
    IF size # Omitted /\ (~IsFinite(size[1]) \/ size[1] < 1 \/ size[1] > 20)
    THEN /\ Respond(CreateRequest(size, seed, style), 400, [error |-> "size must be between 1 and 20"])
         /\ UNCHANGED <<rngVars, genVars, genLog, rows, seq, issued>>
    ELSE IF style # Omitted /\ style[1] \notin Styles
    THEN /\ Respond(CreateRequest(size, seed, style), 400,
                    [error |-> "style must be one of: classic, dense, minimal, mixed"])
         /\ UNCHANGED <<rngVars, genVars, genLog, rows, seq, issued>>
    ELSE LET made == createSnowflake(size, seed, style, now, rndSize, rndSeed, rndStyle)
         IN  /\ rows' = made.rows
             /\ seq' = made.seq
             /\ issued' = Append(issued, made.result.id)
             /\ genCall' = made.call
             /\ value' = made.value
             /\ Respond(CreateRequest(size, seed, style), 201, made.result)
             /\ UNCHANGED <<rngSeed, rngOut, rngCalls, genGrid, genOut, genLog>>

\* PATCH /api/snowflakes/{id}/melt
MeltRoute(id) ==
    /\ IF ~IsFinite(id)
       THEN Respond(IdRequest("melt", id), 400, [error |-> "bad id"]) /\ UNCHANGED rows
       ELSE LET res == meltSnowflake(id)
            IN  /\ rows' = res.rows
                /\ IF res.changes = 0 THEN Respond(IdRequest("melt", id), 404, [error |-> "not found"])
                   ELSE Respond(IdRequest("melt", id), 200, [ok |-> TRUE])
    /\ UNCHANGED <<rngVars, genVars, genLog, seq, issued>>

\* DELETE /api/snowflakes/{id}
DeleteRoute(id) ==
    /\ IF ~IsFinite(id)
       THEN Respond(IdRequest("delete", id), 400, [error |-> "bad id"]) /\ UNCHANGED rows
       ELSE LET res == deleteSnowflake(id)
            IN  /\ rows' = res.rows
                /\ IF res.changes = 0 THEN Respond(IdRequest("delete", id), 404, [error |-> "not found"])
                   ELSE Respond(IdRequest("delete", id), 200, [ok |-> TRUE])
    /\ UNCHANGED <<rngVars, genVars, genLog, seq, issued>>

-----------------------------------------------------------------------------
(* Spec: the service over its lifetime *)

\* Math.floor(Date.now() / 1000) at two requests a second apart
Times == {1734123456, 1734123457}

\* "snowflake-1734123456789-0.5"
GeneratedSeed ==
    <<115, 110, 111, 119, 102, 108, 97, 107, 101, 45, 49, 55, 51, 52, 49, 50, 51,
      52, 53, 54, 55, 56, 57, 45, 48, 46, 53>>

\* ids requested: every id a row can have, and one no row ever has
IdInputs == 0..(MaxId + 1)

Create ==
    /\ Len(issued) < MaxId
    /\ \E size \in {Given(1), Given(2)}, now \in Times :
          CreateRoute(size, Given(<<97>>), Given("classic"), now, 0, GeneratedSeed, 0)

Next ==
    \/ Create
    \/ ListRoute
    \/ \E id \in IdInputs : GetRoute(id)
    \/ \E id \in IdInputs : RenderRoute(id)
    \/ \E id \in IdInputs : MeltRoute(id)
    \/ \E id \in IdInputs : DeleteRoute(id)

Spec == Init /\ [][Next]_vars

-----------------------------------------------------------------------------
(* SpecCreate: one POST /api/snowflakes on an empty table, over every body *)

SizeInputs == {Omitted} \cup {Given(n) : n \in 0..21}
SeedInputs == {Omitted, Given(<<>>), Given(ExampleSeed), Given(ZeroSeed)}
StyleInputs == {Omitted} \cup {Given(st) : st \in Styles}

CreateOnce ==
    /\ issued = <<>>
    /\ request = NoRequest
    /\ \E size \in SizeInputs, seed \in SeedInputs, style \in StyleInputs, now \in Times :
         \E rndSize \in (IF size = Omitted THEN 0..9 ELSE {0}) :
         \E rndStyle \in (IF style = Omitted THEN 0..3 ELSE {0}) :
            CreateRoute(size, seed, style, now, rndSize, GeneratedSeed, rndStyle)

NextCreate == CreateOnce

SpecCreate == Init /\ [][NextCreate]_vars

-----------------------------------------------------------------------------
(* Properties of the generator *)

\* a seed whose hash is 0 or 2147483647: the closure's value is 0 from the first
\* step on
Degenerate(seed) == hash(seed) % Modulus = 0

\* C3: every value the closure returns lies in [0, 1), and its state after
\* every step lies in 1..2147483646, for every seed.
C3_RngInRange ==
    rngCalls > 0 =>
        /\ rngOut >= 0 /\ rngOut < Divisor
        /\ value \in 1..(Modulus - 1)

\* the same for the seeds whose hash is neither 0 nor 2147483647
RngInRangeUnlessDegenerate ==
    (rngSeed # NoSeed /\ ~Degenerate(rngSeed)) => C3_RngInRange

\* a degenerate seed returns -1/2147483646 on every call
DegenerateIsStuck ==
    (rngSeed # NoSeed /\ Degenerate(rngSeed) /\ rngCalls > 0) => (value = 0 /\ rngOut = -1)

\* C1: generate returns `size` lines of `size` characters each, for every seed,
\* every size in 1..20 and every style.
C1_Shape ==
    (genCall # NoCall /\ genCall.size \in 1..20) =>
        LET L == Lines(genOut)
        IN  /\ Len(L) = genCall.size
            /\ \A k \in DOMAIN L : Len(L[k]) = genCall.size

\* the same for the seeds whose hash is neither 0 nor 2147483647
ShapeUnlessDegenerate ==
    (genCall # NoCall /\ ~Degenerate(genCall.seed)) => C1_Shape

\* For a degenerate seed the centre cell is undefined and the join drops it: the
\* centre line is one character short.
DegenerateShape ==
    (genCall # NoCall /\ Degenerate(genCall.seed)) =>
        LET L == Lines(genOut)
        IN  /\ Len(L) = genCall.size
            /\ \A k \in DOMAIN L :
                 Len(L[k]) = IF k = (genCall.size \div 2) + 1
                             THEN genCall.size - 1 ELSE genCall.size

\* C2: when generate finishes, grid[center][center] is a glyph of the selected
\* palette, never a space; for size 1 the output is that single glyph.
C2_CenterIsGlyph ==
    genCall # NoCall =>
        LET center == genCall.size \div 2
            palette == Range(chars[genCall.style])
        IN  /\ Cell(genGrid, center, center) \in palette
            /\ Cell(genGrid, center, center) # Space
            /\ genCall.size = 1 => (Len(genOut) = 1 /\ genOut[1] \in palette)

\* the same for the seeds whose hash is neither 0 nor 2147483647
CenterUnlessDegenerate ==
    (genCall # NoCall /\ ~Degenerate(genCall.seed)) => C2_CenterIsGlyph

\* the characters of the returned string: spaces, newlines and palette glyphs
OutputAlphabet ==
    genCall # NoCall =>
        \A i \in DOMAIN genOut :
            genOut[i] \in {Space, Newline} \cup Range(chars[genCall.style])

\* C5: every character of the output that is neither a space nor a newline is
\* a glyph of the selected palette, and nothing but glyphs of that palette is
\* ever written to the grid.
C5_Alphabet ==
    (genCall # NoCall /\ genCall.size \in 1..20) =>
        /\ OutputAlphabet
        /\ \A r \in DOMAIN genGrid : \A c \in DOMAIN genGrid[r] :
              genGrid[r][c] \in {Space} \cup Range(chars[genCall.style])

\* the same for the seeds whose hash is neither 0 nor 2147483647
AlphabetUnlessDegenerate ==
    (genCall # NoCall /\ ~Degenerate(genCall.seed)) => C5_Alphabet

SameArgs(a, b) == a.seed = b.seed /\ a.size = b.size /\ a.style = b.style

-----------------------------------------------------------------------------
(* Properties of the table and the routes *)

SameContent(a, b) ==
    a.pattern = b.pattern /\ a.size = b.size /\ a.createdAt = b.createdAt

\* what one request may do to the rows it does not delete
RowsFrame ==
    /\ \A id \in DOMAIN rows \cap DOMAIN rows' : SameContent(rows'[id], rows[id])
    /\ request'.op = "melt" =>
          /\ DOMAIN rows' = DOMAIN rows
          /\ \A id \in DOMAIN rows : id # request'.id => rows'[id] = rows[id]
    /\ request'.op \in {"get", "list", "render"} => (rows' = rows /\ seq' = seq)

\* C6: a row's pattern, size and createdAt never change while it is stored; melt
\* changes only the melted flag of the row it names; get, list and render change
\* nothing.
C6_RowsImmutable == [][RowsFrame]_vars

\* a melt has just succeeded next to a row that is still unmelted, after some
\* other row was deleted
C6_Witness ==
    /\ request.op = "melt" /\ response.status = 200
    /\ rows[request.id].melted = 1
    /\ \E j \in DOMAIN rows : rows[j].melted = 0
    /\ \E k \in DOMAIN issued : issued[k] \notin DOMAIN rows

\* what get, render, melt and delete answer, and do, for a finite id
IdRouteStep ==
    request'.op \in {"get", "render", "melt", "delete"} =>
        LET id == request'.id
        IN  IF id \notin DOMAIN rows
            THEN /\ response'.status = 404
                 /\ rows' = rows
            ELSE /\ response'.status = 200
                 /\ request'.op = "get" => (rows' = rows /\ response'.body = Row(id))
                 /\ request'.op = "render" =>
                        (rows' = rows /\ response'.body = rows[id].pattern)
                 /\ request'.op = "melt" =>
                        /\ DOMAIN rows' = DOMAIN rows
                        /\ rows'[id].melted = 1
                        /\ \A j \in DOMAIN rows : j # id => rows'[j] = rows[j]
                 /\ request'.op = "delete" =>
                        /\ DOMAIN rows' = DOMAIN rows \ {id}
                        /\ \A j \in DOMAIN rows' : rows'[j] = rows[j]

\* C7: get, render, melt and delete answer 404 and change nothing when no row
\* has the id, and 200 when one has; melt then leaves the row melted, delete
\* removes exactly that row.
C7_IdRoutes == [][IdRouteStep]_vars

\* a delete answered 404 for an id that was issued and deleted before
C7_Witness ==
    /\ request.op = "delete" /\ response.status = 404
    /\ \E k \in DOMAIN issued : issued[k] = request.id
    /\ rows # NoRows

C10_SizeInRange ==
    /\ \A id \in DOMAIN rows : rows[id].size \in 1..20
    /\ (request.op = "create" /\ response.status = 201) => genCall.size \in 1..20

\* the sizes that are stored: the odd sizes up to 21
StoredSizes ==
    \A id \in DOMAIN rows : rows[id].size \in 1..21 /\ rows[id].size % 2 = 1

\* the position of id in the order of creation
CreatedAs(id) == CHOOSE k \in DOMAIN issued : issued[k] = id

\* C9: listSnowflakes returns every stored row exactly once, in strictly
\* descending id order, and that is newest first: every id issued is greater
\* than all ids issued before it, also after deletes.
C9_NewestFirst ==
    LET L == listSnowflakes
    IN  /\ Len(L) = Cardinality(DOMAIN rows)
        /\ {L[k].id : k \in DOMAIN L} = DOMAIN rows
        /\ \A k \in DOMAIN L : L[k] = Row(L[k].id)
        /\ \A i \in DOMAIN L : \A j \in DOMAIN L : i < j => L[i].id > L[j].id
        /\ \A i \in DOMAIN issued : \A j \in DOMAIN issued : i < j => issued[i] < issued[j]
        /\ DOMAIN rows \subseteq Range(issued)
        /\ \A i \in DOMAIN L : \A j \in DOMAIN L :
              i < j => CreatedAs(L[i].id) > CreatedAs(L[j].id)
        /\ request.op = "list" => response.body = L

\* a list of two rows answered after the row created between them was deleted
C9_Witness ==
    /\ request.op = "list"
    /\ Len(response.body) = 2
    /\ Len(issued) = 3
    /\ issued[2] \notin DOMAIN rows
    /\ response.body[1].id = issued[3]
====
